---------------------------- MODULE Spec2Model ----------------------------
(***************************************************************************)
(* cursor-wrap: the hang monitor (internal/monitor/monitor.go), the event  *)
(* reader (internal/events/reader.go), the process manager                 *)
(* (internal/process) and the per-turn orchestrator runTurn                *)
(* (cmd/cursor-wrap/main.go).                                              *)
(*                                                                         *)
(* Time is a natural number of abstract units.  The wrapper's own steps    *)
(* take no time: the clock advances only while the main loop is blocked    *)
(* (parked in its select, inside Kill, inside Wait, inside wg.Wait) and    *)
(* its workers are blocked in a read or in a send.  The child is free to   *)
(* write, to exit and to ignore SIGTERM whenever it likes.                 *)
(***************************************************************************)
EXTENDS Integers, Sequences, FiniteSets, TLC

(***************************************************************************)
(* Bounds of the model.                                                    *)
(***************************************************************************)
MaxTime == 4
MaxMonTime == 4
MaxLines == 2
MaxMonEvents == 3
EventChCap == 1

(***************************************************************************)
(* Program constants, scaled to the abstract time unit.                    *)
(***************************************************************************)
TickInterval == 2
killGrace == 1

VerdictOK == "OK"
VerdictWaiting == "Waiting"
VerdictHang == "Hang"

(***************************************************************************)
(* Thresholds accepted by parseFlags: any two durations, unrelated to each *)
(* other (the defaults are idle 60s > grace 30s; nothing forbids the       *)
(* opposite order).                                                        *)
(***************************************************************************)
Thresholds == { [idle |-> 2, grace |-> 1], [idle |-> 1, grace |-> 2] }

\* The thresholds a turn is run with: tick_interval above idle_timeout.
TurnThresholds == { [idle |-> 1, grace |-> 1] }

CallIDs == {"c1", "c2"}
Timeouts == {0, 2}

(***************************************************************************)
(* The lines the agent can write on its stdout.                            *)
(***************************************************************************)
Line(kind, type, subtype, sid, call, tool, timeout) ==
    [kind |-> kind, Type |-> type, Subtype |-> subtype, SessionID |-> sid,
     CallID |-> call, ToolType |-> tool, Timeout |-> timeout]

InitLines == { Line("json", "system", "init", "S1", "", "", 0) }
ShellStartedLines ==
    { Line("json", "tool_call", "started", "", c, "shellToolCall", t) :
        c \in CallIDs, t \in Timeouts }
OtherStartedLines ==
    { Line("json", "tool_call", "started", "", c, "lsToolCall", 0) : c \in CallIDs }
CompletedLines ==
    { Line("json", "tool_call", "completed", "", c, "shellToolCall", 0) : c \in CallIDs }
ResultLines == { Line("json", "result", "success", "", "", "", 0) }
FlowLines == { Line("json", "user", "", "", "", "", 0) }
NonJSONLines == { Line("nonjson", "", "", "", "", "", 0) }
TooLongLines == { Line("toolong", "", "", "", "", "", 0) }

EventLines ==
    InitLines \cup ShellStartedLines \cup OtherStartedLines \cup CompletedLines
        \cup ResultLines \cup FlowLines

AnnotatedEvent(line, recv) == [RecvTime |-> recv, Parsed |-> line]

Max(a, b) == IF a >= b THEN a ELSE b

(***************************************************************************)
(* internal/monitor/monitor.go                                             *)
(***************************************************************************)

\* NewMonitor: empty open-call table, LastEventAt = clock.Now().
NewMonitor(clockNow) ==
    [OpenCalls |-> << >>, LastEventAt |-> clockNow, LastEvType |-> "",
     SessionDone |-> FALSE, SessionID |-> ""]

\* "type" or "type/subtype"
EvType(p) == IF p.Subtype # "" THEN p.Type \o "/" \o p.Subtype ELSE p.Type

\* The entry a tool_call/started inserts: timeout and command only for the
\* shell tool.
OpenToolCall(ev) ==
    [CallID |-> ev.Parsed.CallID,
     StartedAt |-> ev.RecvTime,
     TimeoutMS |-> IF ev.Parsed.ToolType = "shellToolCall" THEN ev.Parsed.Timeout ELSE 0,
     Command |-> IF ev.Parsed.ToolType = "shellToolCall" THEN "cmd" ELSE ""]

MapPut(m, k, v) == [x \in (DOMAIN m) \cup {k} |-> IF x = k THEN v ELSE m[x]]
MapDelete(m, k) == [x \in (DOMAIN m) \ {k} |-> m[x]]

\* Variant: a completion that matches no open call empties the table.
OpenCallsAfter_UnmatchedClears(st, ev) ==
    IF ev.Parsed.Type = "tool_call" /\ ev.Parsed.Subtype = "started"
    THEN MapPut(st.OpenCalls, ev.Parsed.CallID, OpenToolCall(ev))
    ELSE IF ev.Parsed.Type = "tool_call" /\ ev.Parsed.Subtype = "completed"
    THEN (IF ev.Parsed.CallID \in DOMAIN st.OpenCalls
          THEN MapDelete(st.OpenCalls, ev.Parsed.CallID)
          ELSE << >>)
    ELSE st.OpenCalls

\* Variant: a started for a call_id that is already open keeps the entry
\* of the first start.
OpenCallsAfter_KeepsFirstStart(st, ev) ==
    IF ev.Parsed.Type = "tool_call" /\ ev.Parsed.Subtype = "started"
    THEN (IF ev.Parsed.CallID \in DOMAIN st.OpenCalls
          THEN st.OpenCalls
          ELSE MapPut(st.OpenCalls, ev.Parsed.CallID, OpenToolCall(ev)))
    ELSE IF ev.Parsed.Type = "tool_call" /\ ev.Parsed.Subtype = "completed"
    THEN MapDelete(st.OpenCalls, ev.Parsed.CallID)
    ELSE st.OpenCalls

\* The open-call table after the event's switch statement.
OpenCallsAfter(st, ev) ==
    IF ev.Parsed.Type = "tool_call" /\ ev.Parsed.Subtype = "started"
    THEN MapPut(st.OpenCalls, ev.Parsed.CallID, OpenToolCall(ev))
    ELSE IF ev.Parsed.Type = "tool_call" /\ ev.Parsed.Subtype = "completed"
    THEN MapDelete(st.OpenCalls, ev.Parsed.CallID)
    ELSE st.OpenCalls

\* Variant: only the event types of the switch statement update the time
\* and the type of the last event.
ProcessEventState_KnownTypesOnly(st, ev) ==
    LET known == ev.Parsed.Type \in {"system", "tool_call", "result"}
    IN [OpenCalls |-> OpenCallsAfter(st, ev),
        LastEventAt |-> IF known THEN ev.RecvTime ELSE st.LastEventAt,
        LastEvType |-> IF known THEN EvType(ev.Parsed) ELSE st.LastEvType,
        SessionDone |-> (st.SessionDone \/ ev.Parsed.Type = "result"),
        SessionID |-> IF ev.Parsed.Type = "system" /\ ev.Parsed.Subtype = "init"
                      THEN ev.Parsed.SessionID ELSE st.SessionID]

\* The monitor state after ProcessEvent(ev).
ProcessEventState(st, ev) ==
    [OpenCalls |-> OpenCallsAfter(st, ev),
     LastEventAt |-> ev.RecvTime,
     LastEvType |-> EvType(ev.Parsed),
     SessionDone |-> (st.SessionDone \/ ev.Parsed.Type = "result"),
     SessionID |-> IF ev.Parsed.Type = "system" /\ ev.Parsed.Subtype = "init"
                   THEN ev.Parsed.SessionID ELSE st.SessionID]

\* Variant: open calls after the result are reported as a hang.
ProcessEventVerdict_Hang(st2) ==
    IF DOMAIN st2.OpenCalls # {}
    THEN (IF st2.SessionDone THEN VerdictHang ELSE VerdictWaiting)
    ELSE VerdictOK

\* The verdict ProcessEvent returns, computed on the updated state.
ProcessEventVerdict(st2) ==
    IF DOMAIN st2.OpenCalls # {} THEN VerdictWaiting ELSE VerdictOK

\* Variant: no idle-timeout fallback for a call without a declared timeout.
ToolDeadline_NoFallback(tool, idle, grace) == tool.TimeoutMS + grace

\* toolDeadline of one open call.
ToolDeadline(tool, idle, grace) ==
    IF tool.TimeoutMS = 0 THEN idle ELSE tool.TimeoutMS + grace

OpenCallDetail(tool, t) ==
    [CallID |-> tool.CallID, Command |-> tool.Command,
     ElapsedMS |-> t - tool.StartedAt, TimeoutMS |-> tool.TimeoutMS]

\* Variant: the details of one call only.
Reason_FirstCall(st, t, withCalls) ==
    [IdleSilenceMS |-> t - st.LastEventAt,
     OpenCallCount |-> Cardinality(DOMAIN st.OpenCalls),
     LastEventType |-> st.LastEvType,
     OpenCalls |-> IF withCalls
                   THEN LET c == CHOOSE c \in DOMAIN st.OpenCalls : TRUE
                        IN { OpenCallDetail(st.OpenCalls[c], t) }
                   ELSE {}]

\* The Reason built by CheckTimeout; the per-call details are filled in only
\* on the path that iterates over the table.
Reason(st, t, withCalls) ==
    [IdleSilenceMS |-> t - st.LastEventAt,
     OpenCallCount |-> Cardinality(DOMAIN st.OpenCalls),
     LastEventType |-> st.LastEvType,
     OpenCalls |-> IF withCalls
                   THEN { OpenCallDetail(st.OpenCalls[c], t) : c \in DOMAIN st.OpenCalls }
                   ELSE {}]

\* Variant: one expired call is enough.
AllExpired_Any(st, t, idle, grace) ==
    \E c \in DOMAIN st.OpenCalls :
        ~ (t - st.OpenCalls[c].StartedAt <= ToolDeadline(st.OpenCalls[c], idle, grace))

\* allExpired: no open call has toolElapsed <= toolDeadline.
AllExpired(st, t, idle, grace) ==
    \A c \in DOMAIN st.OpenCalls :
        ~ (t - st.OpenCalls[c].StartedAt <= ToolDeadline(st.OpenCalls[c], idle, grace))

\* Variant: without open calls any silence is a hang.
CheckTimeout_NoIdle(st, t, idle, grace) ==
    IF st.SessionDone
    THEN [v |-> VerdictOK, reason |-> Reason(st, t, FALSE)]
    ELSE IF DOMAIN st.OpenCalls = {}
    THEN [v |-> VerdictHang, reason |-> Reason(st, t, FALSE)]
    ELSE [v |-> IF AllExpired(st, t, idle, grace) THEN VerdictHang ELSE VerdictWaiting,
          reason |-> Reason(st, t, TRUE)]

\* Variant: the SessionDone early return is missing.
CheckTimeout_NoDone(st, t, idle, grace) ==
    IF DOMAIN st.OpenCalls = {}
    THEN [v |-> IF t - st.LastEventAt > idle THEN VerdictHang ELSE VerdictOK,
          reason |-> Reason(st, t, FALSE)]
    ELSE [v |-> IF AllExpired(st, t, idle, grace) THEN VerdictHang ELSE VerdictWaiting,
          reason |-> Reason(st, t, TRUE)]

\* Variant: the idle comparison is >= instead of >.
CheckTimeout_IdleGeq(st, t, idle, grace) ==
    IF st.SessionDone
    THEN [v |-> VerdictOK, reason |-> Reason(st, t, FALSE)]
    ELSE IF DOMAIN st.OpenCalls = {}
    THEN [v |-> IF t - st.LastEventAt >= idle THEN VerdictHang ELSE VerdictOK,
          reason |-> Reason(st, t, FALSE)]
    ELSE [v |-> IF AllExpired(st, t, idle, grace) THEN VerdictHang ELSE VerdictWaiting,
          reason |-> Reason(st, t, TRUE)]

\* CheckTimeout(now): verdict and reason.
CheckTimeout(st, t, idle, grace) ==
    IF st.SessionDone
    THEN [v |-> VerdictOK, reason |-> Reason(st, t, FALSE)]
    ELSE IF DOMAIN st.OpenCalls = {}
    THEN [v |-> IF t - st.LastEventAt > idle THEN VerdictHang ELSE VerdictOK,
          reason |-> Reason(st, t, FALSE)]
    ELSE [v |-> IF AllExpired(st, t, idle, grace) THEN VerdictHang ELSE VerdictWaiting,
          reason |-> Reason(st, t, TRUE)]

NoReason == [IdleSilenceMS |-> 0, OpenCallCount |-> 0, LastEventType |-> "", OpenCalls |-> {}]

(***************************************************************************)
(* internal/process: Session.Kill and Session.Wait, and the child.         *)
(***************************************************************************)

\* Process.Signal(0) as Kill uses it to probe liveness: the signal is
\* accepted for as long as the child has not been reaped by Wait.
ProbeAlive(isReaped) == ~isReaped

\* cmd.Wait's error: nil only for exit status 0.
WaitErr(status) == status # "zero"

(***************************************************************************)
(* cmd/cursor-wrap/main.go: errors and the turn's result.                  *)
(***************************************************************************)
NilErr == "nil"
ErrHangDetected == "hang detected"
ErrAbnormalExit == "abnormal exit"
ErrWait == "waiting for cursor-agent"
ErrReader == "event reader"
ErrCanceled == "context canceled"
ErrSpawn == "starting cursor-agent"

TurnResult(sid, err, reason) == [SessionID |-> sid, Err |-> err, Reason |-> reason]

\* Variant: the end of the stream is always reported as an abnormal exit.
handleStreamEnd_Abnormal(status, done) == ErrAbnormalExit

\* handleStreamEnd's return value once Wait has returned.
handleStreamEnd(status, done) ==
    IF WaitErr(status) THEN ErrWait
    ELSE IF done THEN NilErr
    ELSE ErrAbnormalExit

\* Reason.String(): the summary fields followed by one bracket per open
\* call, an empty command printed as "(non-shell)".
ReasonString(r) ==
    <<r.IdleSilenceMS, r.OpenCallCount, r.LastEventType,
      { <<d.CallID, IF d.Command = "" THEN "(non-shell)" ELSE d.Command,
          d.ElapsedMS, d.TimeoutMS>> : d \in r.OpenCalls }>>

\* Variant: the ticker fires at twice the configured interval.
NextTickAfter_Double(t) == t + 2 * TickInterval

\* time.NewTicker(cfg.TickInterval): the tick after the one at t.
NextTickAfter(t) == t + TickInterval

\* The lines the agent writes during a turn.
TurnLines ==
    InitLines
      \cup { Line("json", "tool_call", "started", "", "c1", "shellToolCall", 1),
             Line("json", "tool_call", "started", "", "c2", "lsToolCall", 0) }
      \cup ResultLines \cup NonJSONLines \cup TooLongLines

(***************************************************************************)
(* State.                                                                  *)
(***************************************************************************)
VARIABLES
    now,          \* wall clock
    idleTimeout,  \* cfg.IdleTimeout
    toolGrace,    \* cfg.ToolGrace
    state,        \* Monitor.state
    ret,          \* the monitor's last call: operation, verdict, reason,
                  \* time argument and the state it was called on
    monEvents,    \* number of events fed to the monitor driven on its own
    startedOpen,  \* history: the call_ids started and not completed since
    mainPc,       \* runTurn's position
    sel,          \* the select case the parked main loop was woken for
    runErr,       \* runErr
    killRet,      \* where runTurn continues when Kill returns
    killDeadline, \* end of Kill's grace period
    result,       \* the TurnResult returned
    journal,      \* what the main loop did, in order
    kills,        \* the reasons Kill was called with, in order
    agentSt,      \* the child process
    exitStatus,   \* its exit status
    termSent,     \* SIGTERM was delivered to it
    reaped,       \* Wait has collected it
    written,      \* number of lines it has written
    pipe,         \* its stdout pipe: lines written and not yet read
    readerPc,     \* the reader worker's position
    readerEv,     \* the event the reader is about to emit
    eventCh,      \* eventCh
    chClosed,     \* eventCh is closed
    readerErrCh,  \* readerErrCh holds an error
    drainPc,      \* the stderr drainer's position
    tickPending,  \* ticker.C holds a tick
    nextTick,     \* time of the ticker's next tick
    cancelled,    \* ctx is cancelled
    cancelAt,     \* "loop" when ctx was cancelled while the main loop was in
                  \* its select loop with no other case ready
    readErrSent,  \* the reader has put a read error on readerErrCh
    emitted,      \* the line numbers of the events the reader has put on
                  \* eventCh, in order
    sigkill,      \* the state of the child when Kill sent it SIGKILL
    tooLongAt,    \* the number of the over-long line the scanner stopped at,
                  \* 0 if it has met none
    inLines,      \* pass-through pipeline: the lines the agent writes
    rest,         \* the bytes of them the scanner has not consumed
    proxyPc,      \* the pipeline's position
    pending,      \* Raw of the event on its way to the formatter
    out,          \* the bytes written on the wrapper's stdout
    cfg,          \* session loop: the Config run was called with
    runPc,        \* run's position
    prompt,       \* prompt
    sessionID,    \* sessionID
    hangRetries,  \* hangRetries
    turnRes,      \* result, the TurnResult of the last runTurn
    runRet,       \* the error run returned
    exitCode,     \* the status the wrapper exited with
    runLog,       \* what run did, in order
    logSession,   \* the LogSession: the log file's path, sessionSet
    ctxDone,      \* ctx of main is cancelled while run waits for input
    pcfg,         \* process manager: the Config Start is called with
    procPc,       \* the caller's position
    proc          \* what Start did to the child and what it returned

monVars == <<now, idleTimeout, toolGrace, state, ret, monEvents, startedOpen>>
mainVars == <<mainPc, sel, runErr, killRet, killDeadline, result, journal, kills>>
agentVars == <<agentSt, exitStatus, termSent, reaped, written, pipe>>
readerVars == <<readerPc, readerEv, eventCh, chClosed, readerErrCh>>
envVars == <<drainPc, tickPending, nextTick, cancelled>>
histVars == <<cancelAt, readErrSent, emitted, sigkill, tooLongAt>>
turnVars == <<mainVars, agentVars, readerVars, envVars, histVars>>
proxyVars == <<inLines, rest, proxyPc, pending, out>>
runVars == <<cfg, runPc, prompt, sessionID, hangRetries, turnRes, runRet, exitCode, runLog,
             logSession, ctxDone>>
procVars == <<pcfg, procPc, proc>>
otherVars == <<proxyVars, runVars, procVars>>
vars == <<monVars, turnVars, otherVars>>

NoRet == [op |-> "none", v |-> VerdictOK, reason |-> NoReason, t |-> 0,
          pre |-> NewMonitor(0)]
NoEvent == AnnotatedEvent(Line("none", "", "", "", "", "", 0), 0)
NoResult == TurnResult("", "none", NoReason)

InitWith(T) ==
    /\ now = 0
    /\ \E th \in T : idleTimeout = th.idle /\ toolGrace = th.grace
    /\ state = NewMonitor(0)
    /\ ret = NoRet
    /\ monEvents = 0
    /\ startedOpen = {}
    /\ mainPc = "start" /\ sel = "none" /\ runErr = NilErr
    /\ killRet = "none" /\ killDeadline = 0
    /\ result = NoResult /\ journal = << >> /\ kills = << >>
    /\ agentSt = "none" /\ exitStatus = "none" /\ termSent = FALSE
    /\ reaped = FALSE /\ written = 0 /\ pipe = << >>
    /\ readerPc = "idle" /\ readerEv = NoEvent
    /\ eventCh = << >> /\ chClosed = FALSE /\ readerErrCh = FALSE
    /\ drainPc = "idle" /\ tickPending = FALSE /\ nextTick = 0
    /\ cancelled = FALSE
    /\ cancelAt = "none" /\ readErrSent = FALSE /\ emitted = << >>
    /\ sigkill = "none"
    /\ tooLongAt = 0

\* The monitor on its own is driven with every pair of Thresholds, a turn
\* with the pair of TurnThresholds.
\* The pass-through pipeline is not running.
ProxyIdle ==
    inLines = << >> /\ rest = << >> /\ proxyPc = "idle" /\ pending = << >>
        /\ out = << >>

\* The session loop is not running.
RunIdle ==
    /\ cfg = [PrintMode |-> TRUE, PromptAfterHang |-> "", MaxHangRetries |-> 3, Resume |-> ""]
    /\ runPc = "idle" /\ prompt = "" /\ sessionID = "" /\ hangRetries = 0
    /\ turnRes = NoResult /\ runRet = "none" /\ exitCode = -1 /\ runLog = << >>
    /\ logSession = [filePath |-> "", sessionSet |-> FALSE]
    /\ ctxDone = FALSE

\* process.Start is not being driven on its own.
NoProc ==
    [argv |-> << >>, ops |-> << >>, stdin |-> << >>, sess |-> FALSE, err |-> "none",
     failed |-> "none"]
ProcIdle ==
    /\ pcfg = [Prompt |-> << >>, SessionID |-> "", Force |-> FALSE, Model |-> "",
               Workspace |-> "", ExtraFlags |-> << >>]
    /\ procPc = "idle" /\ proc = NoProc

InitMon == InitWith(Thresholds) /\ ProxyIdle /\ RunIdle /\ ProcIdle
Init == InitWith(TurnThresholds) /\ ProxyIdle /\ RunIdle /\ ProcIdle

\* The history of started and completed calls after one more event line.
StartedOpenAfter(open, line) ==
    IF line.Type = "tool_call" /\ line.Subtype = "started" THEN open \cup {line.CallID}
    ELSE IF line.Type = "tool_call" /\ line.Subtype = "completed" THEN open \ {line.CallID}
    ELSE open

(***************************************************************************)
(* The monitor driven on its own, as its unit tests drive it: events with  *)
(* receive times up to the clock, checks at the clock's time.              *)
(***************************************************************************)
MonProcessEvent ==
    /\ monEvents < MaxMonEvents
    /\ \E line \in EventLines, recv \in Max(0, now - 1)..now :
         /\ recv >= state.LastEventAt
         /\ LET ev == AnnotatedEvent(line, recv)
                st2 == ProcessEventState(state, ev)
            IN /\ state' = st2
               /\ ret' = [op |-> "ProcessEvent", v |-> ProcessEventVerdict(st2),
                          reason |-> NoReason, t |-> recv, pre |-> state]
               /\ startedOpen' = StartedOpenAfter(startedOpen, line)
    /\ monEvents' = monEvents + 1
    /\ UNCHANGED <<now, idleTimeout, toolGrace, turnVars, otherVars>>

MonCheckTimeout ==
    /\ LET r == CheckTimeout(state, now, idleTimeout, toolGrace)
       IN ret' = [op |-> "CheckTimeout", v |-> r.v, reason |-> r.reason,
                  t |-> now, pre |-> state]
    /\ UNCHANGED <<now, idleTimeout, toolGrace, state, monEvents, startedOpen, turnVars, otherVars>>

MonAdvance ==
    /\ now < MaxMonTime
    /\ now' = now + 1
    /\ UNCHANGED <<idleTimeout, toolGrace, state, ret, monEvents, startedOpen, turnVars, otherVars>>

MonNext == MonProcessEvent \/ MonCheckTimeout \/ MonAdvance

SpecMon == InitMon /\ [][MonNext]_vars

(***************************************************************************)
(* The turn: runTurn, its two workers, the child and the environment.      *)
(***************************************************************************)

\* A goroutine parked in a select is resumed for the first case that becomes
\* ready; later ones do not change the choice.
Wake(c) == IF mainPc = "parked" /\ sel = "none" THEN c ELSE sel

CaseReady(c) ==
    CASE c = "event" -> eventCh # << >> \/ chClosed
      [] c = "err" -> readerErrCh
      [] c = "tick" -> tickPending
      [] c = "ctx" -> cancelled

\* The case the main loop takes: any ready one when it reaches the select,
\* the one it was woken for when it was parked.
Chosen(c) ==
    \/ mainPc = "select" /\ CaseReady(c)
    \/ mainPc = "parked" /\ sel = c

J(op, n) == [op |-> op, n |-> n]

\* Variant: the wait group is not waited for.
wgWaitReturns_NoWait == TRUE

\* wg.Wait() returns once both workers have called wg.Done().
wgWaitReturns == readerPc = "done" /\ drainPc = "done"

\* process.Start succeeds; the monitor, the workers and the ticker are set up.
StartOK ==
    /\ mainPc = "start"
    /\ agentSt' = "running"
    /\ state' = NewMonitor(now)
    /\ startedOpen' = {}
    /\ readerPc' = "scan" /\ drainPc' = "run"
    /\ nextTick' = NextTickAfter(now)
    /\ mainPc' = "select"
    /\ UNCHANGED <<otherVars, histVars, now, idleTimeout, toolGrace, ret, monEvents, sel, runErr, killRet,
                   killDeadline, result, journal, kills, exitStatus, termSent, reaped,
                   written, pipe, readerEv, eventCh, chClosed, readerErrCh,
                   tickPending, cancelled>>

\* process.Start fails: the turn returns its error.
StartFail ==
    /\ mainPc = "start"
    /\ mainPc' = "returned"
    /\ result' = TurnResult("", ErrSpawn, NoReason)
    /\ UNCHANGED <<otherVars, histVars, monVars, sel, runErr, killRet, killDeadline, journal, kills,
                   agentVars, readerVars, envVars>>

\* Session.Kill up to the point where it blocks: SIGTERM, then the poll.
KillBegin(reason, retPc) ==
    /\ kills' = Append(kills, reason)
    /\ killRet' = retPc
    /\ IF ProbeAlive(reaped)
       THEN /\ termSent' = TRUE
            /\ killDeadline' = now + killGrace
            /\ mainPc' = "kill_poll"
       ELSE /\ mainPc' = retPc
            /\ UNCHANGED <<termSent, killDeadline>>

\* Variant: the raw_event record is written after the event was handled.
RecvEvent_LogLast ==
    /\ Chosen("event") /\ eventCh # << >>
    /\ LET ev == Head(eventCh)
           st2 == ProcessEventState(state, ev)
       IN /\ journal' = journal \o <<J("WriteEvent", ev.n), J("ProcessEvent", ev.n),
                                     J("raw_event", ev.n)>>
          /\ state' = st2
          /\ ret' = [op |-> "ProcessEvent", v |-> ProcessEventVerdict(st2),
                     reason |-> NoReason, t |-> ev.RecvTime, pre |-> state]
          /\ startedOpen' = StartedOpenAfter(startedOpen, ev.Parsed)
    /\ eventCh' = Tail(eventCh)
    /\ mainPc' = "select" /\ sel' = "none"
    /\ UNCHANGED <<otherVars, histVars, now, idleTimeout, toolGrace, monEvents, runErr, killRet, killDeadline,
                   result, kills, agentVars, readerPc, readerEv, chClosed, readerErrCh,
                   envVars>>

\* case ev, ok := <-eventCh, ok: log the raw event, format it, feed the monitor.
RecvEvent ==
    /\ Chosen("event") /\ eventCh # << >>
    /\ LET ev == Head(eventCh)
           st2 == ProcessEventState(state, ev)
       IN /\ journal' = journal \o <<J("raw_event", ev.n), J("WriteEvent", ev.n),
                                     J("ProcessEvent", ev.n)>>
          /\ state' = st2
          /\ ret' = [op |-> "ProcessEvent", v |-> ProcessEventVerdict(st2),
                     reason |-> NoReason, t |-> ev.RecvTime, pre |-> state]
          /\ startedOpen' = StartedOpenAfter(startedOpen, ev.Parsed)
    /\ eventCh' = Tail(eventCh)
    /\ mainPc' = "select" /\ sel' = "none"
    /\ UNCHANGED <<otherVars, histVars, now, idleTimeout, toolGrace, monEvents, runErr, killRet, killDeadline,
                   result, kills, agentVars, readerPc, readerEv, chClosed, readerErrCh,
                   envVars>>

\* case ev, ok := <-eventCh, !ok: handleStreamEnd, which blocks in Wait.
RecvClosed ==
    /\ Chosen("event") /\ eventCh = << >> /\ chClosed
    /\ mainPc' = "end_wait" /\ sel' = "none"
    /\ UNCHANGED <<otherVars, histVars, monVars, runErr, killRet, killDeadline, result, journal, kills,
                   agentVars, readerVars, envVars>>

\* case err := <-readerErrCh
RecvErr ==
    /\ Chosen("err")
    /\ readerErrCh' = FALSE
    /\ journal' = journal \o <<J("log reader error", 0), J("Kill", 0)>>
    /\ KillBegin([kind |-> "reader error", text |-> << >>], "join")
    /\ runErr' = ErrReader
    /\ sel' = "none"
    /\ UNCHANGED <<otherVars, histVars, monVars, result, agentSt, exitStatus, reaped, written, pipe,
                   readerPc, readerEv, eventCh, chClosed, envVars>>

\* case <-ticker.C: CheckTimeout(mon.Now()); on Hang log the reason and Kill.
RecvTick ==
    /\ Chosen("tick")
    /\ tickPending' = FALSE
    /\ sel' = "none"
    /\ LET r == CheckTimeout(state, now, idleTimeout, toolGrace)
       IN /\ ret' = [op |-> "CheckTimeout", v |-> r.v, reason |-> r.reason,
                     t |-> now, pre |-> state]
          /\ IF r.v = VerdictHang
             THEN /\ journal' = journal \o <<J("log hang", 0), J("Kill", 0)>>
                  /\ KillBegin([kind |-> "reason", text |-> ReasonString(r.reason)],
                               "hang_join")
             ELSE /\ mainPc' = "select"
                  /\ UNCHANGED <<journal, kills, killRet, termSent, killDeadline>>
    /\ UNCHANGED <<otherVars, histVars, now, idleTimeout, toolGrace, state, monEvents, startedOpen, runErr, result,
                   agentSt, exitStatus, reaped, written, pipe, readerVars,
                   drainPc, nextTick, cancelled>>

\* case <-ctx.Done()
RecvCtx ==
    /\ Chosen("ctx")
    /\ journal' = Append(journal, J("Kill", 0))
    /\ KillBegin([kind |-> "context cancelled", text |-> << >>], "join")
    /\ runErr' = ErrCanceled
    /\ sel' = "none"
    /\ UNCHANGED <<otherVars, histVars, monVars, result, agentSt, exitStatus, reaped, written, pipe,
                   readerVars, envVars>>

\* No case is ready: the main loop parks in the select.
MainPark ==
    /\ mainPc = "select"
    /\ \A c \in {"event", "err", "tick", "ctx"} : ~CaseReady(c)
    /\ mainPc' = "parked"
    /\ UNCHANGED <<otherVars, histVars, monVars, sel, runErr, killRet, killDeadline, result, journal, kills,
                   agentVars, readerVars, envVars>>

\* Kill's poll ends (the grace period is over, or the probe fails); SIGKILL
\* if the probe still succeeds, which has an effect on a running child only.
KillEnd ==
    /\ mainPc = "kill_poll"
    /\ now >= killDeadline \/ ~ProbeAlive(reaped)
    /\ IF ProbeAlive(reaped) /\ agentSt = "running"
       THEN agentSt' = "exited" /\ exitStatus' = "signal"
       ELSE UNCHANGED <<agentSt, exitStatus>>
    /\ sigkill' = IF ProbeAlive(reaped) THEN agentSt ELSE sigkill
    /\ mainPc' = killRet
    /\ UNCHANGED <<otherVars, cancelAt, readErrSent, emitted, tooLongAt, monVars, sel, runErr, killRet, killDeadline, result, journal, kills,
                   termSent, reaped, written, pipe, readerVars, envVars>>

\* handleStreamEnd: Wait returns once the child has exited.
EndWait ==
    /\ mainPc = "end_wait"
    /\ agentSt = "exited"
    /\ reaped' = TRUE
    /\ runErr' = handleStreamEnd(exitStatus, state.SessionDone)
    /\ journal' = Append(journal, J("Wait", 0))
    /\ mainPc' = "join"
    /\ UNCHANGED <<otherVars, histVars, monVars, sel, killRet, killDeadline, result, kills, agentSt,
                   exitStatus, termSent, written, pipe, readerVars, envVars>>

\* After the loop: wg.Wait(), fmtr.Flush(), return.
Join ==
    /\ mainPc = "join"
    /\ wgWaitReturns
    /\ journal' = journal \o <<J("wg.Wait", 0), J("Flush", 0)>>
    /\ result' = TurnResult(state.SessionID, runErr, NoReason)
    /\ mainPc' = "returned"
    /\ UNCHANGED <<otherVars, histVars, monVars, sel, runErr, killRet, killDeadline, kills, agentVars,
                   readerVars, envVars>>

\* Variant: the formatter is flushed before the workers are joined.
HangJoin_FlushFirst ==
    /\ mainPc = "hang_join"
    /\ wgWaitReturns
    /\ journal' = journal \o <<J("Flush", 0), J("wg.Wait", 0)>>
    /\ result' = TurnResult(state.SessionID, ErrHangDetected, ret.reason)
    /\ mainPc' = "returned"
    /\ UNCHANGED <<otherVars, histVars, monVars, sel, runErr, killRet, killDeadline, kills, agentVars,
                   readerVars, envVars>>

\* The hang branch after Kill: wg.Wait(), fmtr.Flush(), return.
HangJoin ==
    /\ mainPc = "hang_join"
    /\ wgWaitReturns
    /\ journal' = journal \o <<J("wg.Wait", 0), J("Flush", 0)>>
    /\ result' = TurnResult(state.SessionID, ErrHangDetected, ret.reason)
    /\ mainPc' = "returned"
    /\ UNCHANGED <<otherVars, histVars, monVars, sel, runErr, killRet, killDeadline, kills, agentVars,
                   readerVars, envVars>>

(***************************************************************************)
(* The child process.                                                      *)
(***************************************************************************)
AgentWrite ==
    /\ agentSt = "running"
    /\ written < MaxLines
    /\ \E l \in TurnLines : pipe' = Append(pipe, [line |-> l, n |-> written + 1])
    /\ written' = written + 1
    /\ UNCHANGED <<otherVars, histVars, monVars, mainVars, agentSt, exitStatus, termSent, reaped,
                   readerVars, envVars>>

\* The child exits on its own; its stdout and stderr reach end of file.
AgentExit ==
    /\ agentSt = "running"
    /\ agentSt' = "exited"
    /\ \E st \in {"zero", "nonzero"} : exitStatus' = st
    /\ UNCHANGED <<otherVars, histVars, monVars, mainVars, termSent, reaped, written, pipe,
                   readerVars, envVars>>

\* The child dies of the SIGTERM that Kill sent.
AgentTermExit ==
    /\ agentSt = "running"
    /\ termSent
    /\ agentSt' = "exited"
    /\ exitStatus' = "signal"
    /\ UNCHANGED <<otherVars, histVars, monVars, mainVars, termSent, reaped, written, pipe,
                   readerVars, envVars>>

\* exec.CommandContext: the child is killed when ctx is cancelled.
CtxKillsAgent ==
    /\ agentSt = "running"
    /\ cancelled
    /\ agentSt' = "exited"
    /\ exitStatus' = "signal"
    /\ UNCHANGED <<otherVars, histVars, monVars, mainVars, termSent, reaped, written, pipe,
                   readerVars, envVars>>

(***************************************************************************)
(* internal/events/reader.go                                               *)
(***************************************************************************)

\* Variant: the scanner hands out the newest line of the pipe first.
ReaderScan_Last ==
    /\ readerPc = "scan"
    /\ pipe # << >>
    /\ pipe' = SubSeq(pipe, 1, Len(pipe) - 1)
    /\ LET l == pipe[Len(pipe)]
       IN IF l.line.kind = "toolong"
          THEN readerPc' = "after" /\ tooLongAt' = l.n /\ UNCHANGED readerEv
          ELSE IF cancelled
          THEN readerPc' = "closing" /\ UNCHANGED <<readerEv, tooLongAt>>
          ELSE IF l.line.kind = "nonjson"
          THEN readerPc' = "scan" /\ UNCHANGED <<readerEv, tooLongAt>>
          ELSE /\ readerEv' = [RecvTime |-> now, Parsed |-> l.line, n |-> l.n]
               /\ readerPc' = "send"
               /\ UNCHANGED tooLongAt
    /\ UNCHANGED <<otherVars, cancelAt, readErrSent, emitted, sigkill, monVars, mainVars, agentSt, exitStatus, termSent, reaped, written,
                   eventCh, chClosed, readerErrCh, envVars>>

\* scanner.Scan() returns a line: a line over the maximum size ends the loop
\* with scanner.Err() set; otherwise the ctx check, the timestamp and the
\* parse, a line that does not parse being skipped.
ReaderScan ==
    /\ readerPc = "scan"
    /\ pipe # << >>
    /\ pipe' = Tail(pipe)
    /\ LET l == Head(pipe)
       IN IF l.line.kind = "toolong"
          THEN readerPc' = "after" /\ tooLongAt' = l.n /\ UNCHANGED readerEv
          ELSE IF cancelled
          THEN readerPc' = "closing" /\ UNCHANGED <<readerEv, tooLongAt>>
          ELSE IF l.line.kind = "nonjson"
          THEN readerPc' = "scan" /\ UNCHANGED <<readerEv, tooLongAt>>
          ELSE /\ readerEv' = [RecvTime |-> now, Parsed |-> l.line, n |-> l.n]
               /\ readerPc' = "send"
               /\ UNCHANGED tooLongAt
    /\ UNCHANGED <<otherVars, cancelAt, readErrSent, emitted, sigkill, monVars, mainVars, agentSt, exitStatus, termSent, reaped, written,
                   eventCh, chClosed, readerErrCh, envVars>>

\* scanner.Scan() returns false at end of file, scanner.Err() is nil.
ReaderEOF ==
    /\ readerPc = "scan"
    /\ pipe = << >>
    /\ agentSt = "exited"
    /\ readerPc' = "closing"
    /\ UNCHANGED <<otherVars, histVars, monVars, mainVars, agentVars, readerEv, eventCh, chClosed,
                   readerErrCh, envVars>>

\* case out <- ev
ReaderSend ==
    /\ readerPc = "send"
    /\ Len(eventCh) < EventChCap
    /\ eventCh' = Append(eventCh, readerEv)
    /\ emitted' = Append(emitted, readerEv.n)
    /\ sel' = Wake("event")
    /\ readerPc' = "scan"
    /\ UNCHANGED <<otherVars, cancelAt, readErrSent, sigkill, tooLongAt, monVars, mainPc, runErr, killRet, killDeadline, result, journal,
                   kills, agentVars, readerEv, chClosed, readerErrCh, envVars>>

\* Variant: the emit is a plain `out <- ev`, without a ctx.Done() case.
ReaderSendCancelled_PlainSend ==
    /\ readerPc = "send"
    /\ FALSE
    /\ readerPc' = "closing"
    /\ UNCHANGED <<otherVars, histVars, monVars, mainVars, agentVars, readerEv, eventCh, chClosed,
                   readerErrCh, envVars>>

\* case <-ctx.Done() of the emit
ReaderSendCancelled ==
    /\ readerPc = "send"
    /\ cancelled
    /\ readerPc' = "closing"
    /\ UNCHANGED <<otherVars, histVars, monVars, mainVars, agentVars, readerEv, eventCh, chClosed,
                   readerErrCh, envVars>>

\* Variant: the error is sent without looking at ctx.Err().
ReaderErr_NoCtxCheck ==
    /\ readerPc = "after"
    /\ IF ~readerErrCh
       THEN readerErrCh' = TRUE /\ readErrSent' = TRUE /\ sel' = Wake("err")
       ELSE UNCHANGED <<readerErrCh, readErrSent, sel>>
    /\ readerPc' = "closing"
    /\ UNCHANGED <<otherVars, cancelAt, emitted, sigkill, tooLongAt, monVars, mainPc, runErr, killRet, killDeadline, result,
                   journal, kills, agentVars, readerEv, eventCh, chClosed, envVars>>

\* After the loop with scanner.Err() set: a non-blocking send on errCh
\* unless ctx is cancelled.
ReaderErr ==
    /\ readerPc = "after"
    /\ IF ~cancelled /\ ~readerErrCh
       THEN readerErrCh' = TRUE /\ readErrSent' = TRUE /\ sel' = Wake("err")
       ELSE UNCHANGED <<readerErrCh, readErrSent, sel>>
    /\ readerPc' = "closing"
    /\ UNCHANGED <<otherVars, cancelAt, emitted, sigkill, tooLongAt, monVars, mainPc, runErr, killRet, killDeadline, result,
                   journal, kills, agentVars, readerEv, eventCh, chClosed, envVars>>

\* defer close(out), then wg.Done() in the worker.
ReaderClose ==
    /\ readerPc = "closing"
    /\ chClosed' = TRUE
    /\ sel' = IF eventCh = << >> THEN Wake("event") ELSE sel
    /\ readerPc' = "done"
    /\ UNCHANGED <<otherVars, histVars, monVars, mainPc, runErr, killRet, killDeadline, result, journal,
                   kills, agentVars, readerEv, eventCh, readerErrCh, envVars>>

\* drainStderr ends when the child's stderr reaches end of file.
DrainDone ==
    /\ drainPc = "run"
    /\ agentSt = "exited"
    /\ drainPc' = "done"
    /\ UNCHANGED <<otherVars, histVars, monVars, mainVars, agentVars, readerVars, tickPending, nextTick,
                   cancelled>>

(***************************************************************************)
(* The environment: signals and the clock.                                 *)
(***************************************************************************)

\* SIGINT or SIGTERM to the wrapper cancels ctx.
Cancel ==
    /\ mainPc \notin {"start", "returned"}
    /\ ~cancelled
    /\ cancelled' = TRUE
    /\ cancelAt' = IF /\ mainPc = "select" \/ (mainPc = "parked" /\ sel = "none")
                      /\ \A c \in {"event", "err", "tick"} : ~CaseReady(c)
                   THEN "loop" ELSE "late"
    /\ sel' = Wake("ctx")
    /\ UNCHANGED <<otherVars, readErrSent, emitted, sigkill, tooLongAt, monVars, mainPc, runErr, killRet, killDeadline, result,
                   journal, kills, agentVars, readerVars, drainPc, tickPending, nextTick>>

\* The main loop is blocked: time may pass.
Blocked ==
    \/ mainPc = "parked" /\ sel = "none"
    \/ mainPc = "kill_poll" /\ now < killDeadline /\ ProbeAlive(reaped)
    \/ mainPc = "end_wait" /\ agentSt # "exited"
    \/ mainPc \in {"join", "hang_join"} /\ ~wgWaitReturns

\* The workers are blocked too (in a read, or in a send on a full channel),
\* and a cancelled context has killed the child.
WorkersBlocked ==
    /\ readerPc \in {"scan", "send", "done"}
    /\ readerPc = "scan" => (pipe = << >> /\ agentSt = "running")
    /\ readerPc = "send" => (Len(eventCh) >= EventChCap /\ ~cancelled)
    /\ drainPc = "run" => agentSt = "running"
    /\ cancelled => agentSt # "running"

\* One unit of time passes; the ticker fires when its time has come (a tick
\* is dropped when ticker.C still holds the previous one).
Advance ==
    /\ Blocked
    /\ WorkersBlocked
    /\ now < MaxTime
    /\ now' = now + 1
    /\ IF now + 1 = nextTick
       THEN /\ tickPending' = TRUE
            /\ nextTick' = NextTickAfter(nextTick)
            /\ sel' = Wake("tick")
       ELSE UNCHANGED <<tickPending, nextTick, sel>>
    /\ UNCHANGED <<otherVars, histVars, idleTimeout, toolGrace, state, ret, monEvents, startedOpen, mainPc, runErr,
                   killRet, killDeadline, result, journal, kills, agentVars,
                   readerVars, drainPc, cancelled>>

Next ==
    \/ StartOK \/ StartFail
    \/ RecvEvent \/ RecvClosed \/ RecvErr \/ RecvTick \/ RecvCtx \/ MainPark
    \/ KillEnd \/ EndWait \/ Join \/ HangJoin
    \/ AgentWrite \/ AgentExit \/ AgentTermExit \/ CtxKillsAgent
    \/ ReaderScan \/ ReaderEOF \/ ReaderSend \/ ReaderSendCancelled
    \/ ReaderErr \/ ReaderClose \/ DrainDone
    \/ Cancel \/ Advance

Spec == Init /\ [][Next]_vars

\* What the wrapper's goroutines, the runtime and the passing of time do by
\* themselves; the rest of Next is up to the child (to write, to exit, to
\* die of SIGTERM) and to whoever signals the wrapper.
WrapperNext ==
    \/ StartOK \/ StartFail
    \/ RecvEvent \/ RecvClosed \/ RecvErr \/ RecvTick \/ RecvCtx \/ MainPark
    \/ KillEnd \/ EndWait \/ Join \/ HangJoin
    \/ CtxKillsAgent
    \/ ReaderScan \/ ReaderEOF \/ ReaderSend \/ ReaderSendCancelled
    \/ ReaderErr \/ ReaderClose \/ DrainDone
    \/ Advance

\* The turn with its goroutines scheduled: a step of the wrapper that stays
\* possible is eventually taken.
SpecLive == Init /\ [][Next]_vars /\ WF_vars(WrapperNext)

(***************************************************************************)
(* The pass-through path on its own: the reader's scanner and first-pass   *)
(* parse (internal/events/reader.go) followed by the stream-json           *)
(* formatter (internal/format/streamjson.go), run on a whole stream.       *)
(* Bytes are tokens: "\n", "\r" and one token for the text of a line.      *)
(***************************************************************************)
MaxProxyLines == 2

\* What a line can hold: a JSON object with a string "type", a JSON object
\* whose "type" is a number, a JSON number, a banner that is not JSON.
Contents == {"obj", "badtype", "num", "banner"}
JSONTexts == {"obj", "badtype", "num"}
Terminators == {"lf", "crlf", "none"}

\* The bytes of one line as the agent writes it.
LineBytes(l) ==
    l.content \o (IF l.term = "lf" THEN <<"\n">>
                  ELSE IF l.term = "crlf" THEN <<"\r", "\n">>
                  ELSE << >>)

RECURSIVE StreamBytes(_)
StreamBytes(ls) ==
    IF ls = << >> THEN << >> ELSE LineBytes(Head(ls)) \o StreamBytes(Tail(ls))

\* The streams the agent can write: every line but the last is terminated.
ProxyLine == [content : {<< >>} \cup { <<c>> : c \in Contents }, term : Terminators]
ProxyInputs ==
    { ls \in UNION { [1..n -> ProxyLine] : n \in 0..MaxProxyLines } :
        /\ \A i \in 1..Len(ls) : ls[i].term = "none" => i = Len(ls)
        /\ \A i \in 1..Len(ls) : ls[i].term = "none" => ls[i].content # << >> }

\* Variant: the carriage return stays in the token.
dropCR_Keep(data) == data

\* bufio's dropCR: one trailing "\r" is removed.
dropCR(data) ==
    IF data # << >> /\ data[Len(data)] = "\r"
    THEN SubSeq(data, 1, Len(data) - 1) ELSE data

\* bufio.ScanLines on the unread bytes (all of them are available): the
\* token up to the first "\n", or the unterminated remainder.
ScanLines(data) ==
    LET I == { i \in 1..Len(data) : data[i] = "\n" }
    IN IF I = {}
       THEN [token |-> dropCR(data), rest |-> << >>]
       ELSE LET i == CHOOSE i \in I : \A k \in I : i <= k
            IN [token |-> dropCR(SubSeq(data, 1, i - 1)),
                rest |-> SubSeq(data, i + 1, Len(data))]

\* json.Unmarshal(line, &RawEvent{}) returns nil: the line is a JSON object
\* whose "type" and "subtype", when present, are strings.
Unmarshals(line) == line = <<"obj">>

\* streamJSON.WriteEvent: ev.Raw, then "\n".
WriteEvent(w, raw) == (w \o raw) \o <<"\n">>

InitProxy ==
    /\ InitWith(TurnThresholds)
    /\ \E ls \in ProxyInputs : inLines = ls /\ rest = StreamBytes(ls)
    /\ proxyPc = "scan" /\ pending = << >> /\ out = << >>
    /\ RunIdle /\ ProcIdle

\* One iteration of the reader's loop: scan, parse, emit or skip.
ProxyScan ==
    /\ proxyPc = "scan"
    /\ rest # << >>
    /\ LET sc == ScanLines(rest)
       IN /\ rest' = sc.rest
          /\ IF Unmarshals(sc.token)
             THEN pending' = sc.token /\ proxyPc' = "write"
             ELSE UNCHANGED <<pending, proxyPc>>
    /\ UNCHANGED <<monVars, turnVars, runVars, procVars, inLines, out>>

\* The main loop hands the event to the formatter.
ProxyWrite ==
    /\ proxyPc = "write"
    /\ out' = WriteEvent(out, pending)
    /\ pending' = << >>
    /\ proxyPc' = "scan"
    /\ UNCHANGED <<monVars, turnVars, runVars, procVars, inLines, rest>>

\* scanner.Scan() returns false at the end of the stream.
ProxyEOF ==
    /\ proxyPc = "scan"
    /\ rest = << >>
    /\ proxyPc' = "done"
    /\ UNCHANGED <<monVars, turnVars, runVars, procVars, inLines, rest, pending, out>>

ProxyNext == ProxyScan \/ ProxyWrite \/ ProxyEOF

SpecProxy == InitProxy /\ [][ProxyNext]_vars

(***************************************************************************)
(* cmd/cursor-wrap/main.go: main and run, the session loop.  runTurn is    *)
(* taken by its TurnResult.                                                *)
(***************************************************************************)
MaxTurns == 4

maxHangRetries == 3

\* The Configs run is called with.  MaxHangRetries is the value of
\* --max-hang-retries, Resume the value of --resume.
HangRetryLimits == {1, 3}
Configs ==
    [PrintMode : BOOLEAN, PromptAfterHang : {"", "continue"},
     MaxHangRetries : HangRetryLimits, Resume : {"", "S0"}]

ErrPrompt == "reading prompt"

\* The TurnResults runTurn returns: a spawn failure carries no session id,
\* HangDetected carries a Reason.
SessionIDs == {"", "S1", "S2"}
AHangReason ==
    [IdleSilenceMS |-> 2, OpenCallCount |-> 0, LastEventType |-> "user",
     OpenCalls |-> {}]
TurnResults ==
    { TurnResult("", ErrSpawn, NoReason) }
      \cup { TurnResult(sid, e, NoReason) :
               sid \in SessionIDs,
               e \in {NilErr, ErrAbnormalExit, ErrWait, ErrReader, ErrCanceled} }
      \cup { TurnResult(sid, ErrHangDetected, AHangReason) : sid \in SessionIDs }

\* What runTurn can return: with ctx already cancelled cmd.Start returns
\* ctx.Err() and runTurn the spawn failure.
TurnResultsOf(done) ==
    IF done THEN { TurnResult("", ErrSpawn, NoReason) } ELSE TurnResults

\* Variant: --force is put before --resume.
buildArgs_ForceFirst(pc) ==
    <<"--print", "--output-format", "stream-json">>
      \o (IF pc.Force THEN <<"--force">> ELSE << >>)
      \o (IF pc.SessionID # "" THEN <<"--resume", pc.SessionID>> ELSE << >>)
      \o (IF pc.Model # "" THEN <<"--model", pc.Model>> ELSE << >>)
      \o (IF pc.Workspace # "" THEN <<"--workspace", pc.Workspace>> ELSE << >>)
      \o pc.ExtraFlags

\* process.buildArgs
buildArgs(pc) ==
    <<"--print", "--output-format", "stream-json">>
      \o (IF pc.SessionID # "" THEN <<"--resume", pc.SessionID>> ELSE << >>)
      \o (IF pc.Force THEN <<"--force">> ELSE << >>)
      \o (IF pc.Model # "" THEN <<"--model", pc.Model>> ELSE << >>)
      \o (IF pc.Workspace # "" THEN <<"--workspace", pc.Workspace>> ELSE << >>)
      \o pc.ExtraFlags

\* procCfg of one turn: cfg.Process with Prompt and SessionID set.
procCfg(p, sid) ==
    [Prompt |-> p, SessionID |-> sid, Force |-> TRUE, Model |-> "",
     Workspace |-> "", ExtraFlags |-> << >>]

\* Variant: the session id of the latest turn replaces the captured one.
CaptureSessionID_Latest(sid, res) ==
    IF res.SessionID # "" THEN res.SessionID ELSE sid

\* if result.SessionID != "" && sessionID == "" { sessionID = result.SessionID }
CaptureSessionID(sid, res) ==
    IF res.SessionID # "" /\ sid = "" THEN res.SessionID ELSE sid

\* Variant: print mode does not return on an error.
PrintReturns_Never(c) == FALSE

\* if cfg.Print { return result.Err }
PrintReturns(c) == c.PrintMode

\* Variant: every error is recoverable.
Recoverable_Any(err) == TRUE

\* errors.Is(result.Err, ErrHangDetected)
Recoverable(err) == err = ErrHangDetected

\* hangRetries > maxHangRetries
RetriesExceeded(h) == h > maxHangRetries

\* Variant: every error exits with status 1.
ExitCode_AllOne(err) == IF err = NilErr THEN 0 ELSE 1

\* main: 0 without an error, 2 for ErrHangDetected, 1 otherwise.
ExitCode(err) ==
    IF err = NilErr THEN 0 ELSE IF err = ErrHangDetected THEN 2 ELSE 1

\* logger.Setup: the file is opened as cursor-wrap-<start>-unknown.jsonl.
\* The path is taken by the part of it that names the session.
Setup == [filePath |-> "unknown", sessionSet |-> FALSE]

\* LogSession.SetSessionID (os.Rename succeeds): "unknown" is replaced by
\* the id, once.
SetSessionID(ls, id) ==
    IF ls.sessionSet \/ ls.filePath = "" THEN ls
    ELSE IF ls.filePath # "unknown" THEN ls
    ELSE [filePath |-> id, sessionSet |-> TRUE]

R(op, p, args, err, sid) ==
    [op |-> op, prompt |-> p, args |-> args, err |-> err, sid |-> sid]
Turns == Cardinality({ i \in 1..Len(runLog) : runLog[i].op = "runTurn" })

InitRun ==
    /\ InitWith(TurnThresholds)
    /\ ProxyIdle /\ ProcIdle
    /\ cfg \in Configs
    /\ runPc = "first_prompt" /\ prompt = "" /\ sessionID = "" /\ hangRetries = 0
    /\ turnRes = NoResult /\ runRet = "none" /\ exitCode = -1 /\ runLog = << >>
    /\ logSession = Setup
    /\ ctxDone = FALSE

\* run returns err.
RunReturn(err) == runRet' = err /\ runPc' = "returned"

\* firstPrompt, then sessionID := cfg.Process.SessionID.
RunFirstPrompt ==
    /\ runPc = "first_prompt"
    /\ \/ /\ prompt' = "user"
          /\ sessionID' = cfg.Resume
          /\ runPc' = "turn"
          /\ runLog' = Append(runLog, R("firstPrompt", "user", << >>, NilErr, ""))
          /\ UNCHANGED runRet
       \/ /\ RunReturn(ErrPrompt)
          /\ runLog' = Append(runLog, R("firstPrompt", "", << >>, ErrPrompt, ""))
          /\ UNCHANGED <<prompt, sessionID>>
    /\ UNCHANGED <<monVars, turnVars, proxyVars, procVars, cfg, logSession, ctxDone, hangRetries, turnRes, exitCode>>

\* result := runTurn(ctx, procCfg, ...), followed by the capture of the
\* session id.
RunTurn ==
    /\ runPc = "turn"
    /\ Turns < MaxTurns
    /\ \E res \in TurnResultsOf(ctxDone) :
         /\ turnRes' = res
         /\ sessionID' = CaptureSessionID(sessionID, res)
         /\ logSession' = IF res.SessionID # "" /\ sessionID = ""
                          THEN SetSessionID(logSession, res.SessionID)
                          ELSE logSession
         /\ runLog' = runLog \o
              << R("runTurn", prompt, buildArgs(procCfg(prompt, sessionID)), NilErr, ""),
                 R("result", "", << >>, res.Err, res.SessionID) >>
    /\ runPc' = "handle"
    /\ UNCHANGED <<monVars, turnVars, proxyVars, procVars, cfg, ctxDone, prompt, hangRetries, runRet,
                   exitCode>>

\* Variant: the indicator is written twice.
WriteHangIndicator_Twice(log) ==
    log \o << R("WriteHangIndicator", "", << >>, NilErr, ""),
              R("WriteHangIndicator", "", << >>, NilErr, "") >>

\* fmtr.WriteHangIndicator(result.Reason): one synthetic event on stdout.
WriteHangIndicator(log) ==
    Append(log, R("WriteHangIndicator", "", << >>, NilErr, ""))

\* if result.Err != nil { ... }; if cfg.Print { break }
RunHandle ==
    /\ runPc = "handle"
    /\ IF turnRes.Err # NilErr
       THEN IF PrintReturns(cfg)
            THEN /\ RunReturn(turnRes.Err)
                 /\ UNCHANGED <<runLog, hangRetries, prompt>>
            ELSE IF Recoverable(turnRes.Err)
            THEN /\ runLog' = WriteHangIndicator(runLog)
                 /\ IF cfg.PromptAfterHang # ""
                    THEN /\ hangRetries' = hangRetries + 1
                         /\ IF RetriesExceeded(hangRetries + 1)
                            THEN RunReturn(turnRes.Err) /\ UNCHANGED prompt
                            ELSE /\ prompt' = "recovery"
                                 /\ runPc' = "turn"
                                 /\ UNCHANGED runRet
                    ELSE /\ runPc' = IF cfg.PrintMode THEN "break" ELSE "read_prompt"
                         /\ UNCHANGED <<hangRetries, prompt, runRet>>
            ELSE /\ RunReturn(turnRes.Err)
                 /\ UNCHANGED <<runLog, hangRetries, prompt>>
       ELSE /\ runPc' = IF cfg.PrintMode THEN "break" ELSE "read_prompt"
            /\ UNCHANGED <<runLog, hangRetries, prompt, runRet>>
    /\ UNCHANGED <<monVars, turnVars, proxyVars, procVars, cfg, logSession, ctxDone, sessionID, turnRes, exitCode>>

\* break, return nil
RunBreak ==
    /\ runPc = "break"
    /\ RunReturn(NilErr)
    /\ UNCHANGED <<monVars, turnVars, proxyVars, procVars, cfg, logSession, ctxDone, prompt, sessionID, hangRetries,
                   turnRes, exitCode, runLog>>

\* Variant: at the end of the input run returns the error of the last turn.
RunReadPrompt_EOFKeepsErr ==
    /\ runPc = "read_prompt"
    /\ \/ /\ prompt' = "user"
          /\ runPc' = "turn"
          /\ runLog' = Append(runLog, R("readPrompt", "user", << >>, NilErr, ""))
          /\ UNCHANGED runRet
       \/ /\ RunReturn(turnRes.Err)
          /\ runLog' = Append(runLog, R("readPrompt", "", << >>, "EOF", ""))
          /\ UNCHANGED prompt
       \/ /\ RunReturn(ErrPrompt)
          /\ runLog' = Append(runLog, R("readPrompt", "", << >>, ErrPrompt, ""))
          /\ UNCHANGED prompt
    /\ UNCHANGED <<monVars, turnVars, proxyVars, procVars, cfg, logSession, ctxDone, sessionID, hangRetries, turnRes,
                   exitCode>>

\* prompt, err = readPrompt(cfg.PromptReader): a prompt, the end of the
\* input or a read error.
RunReadPrompt ==
    /\ runPc = "read_prompt"
    /\ \/ /\ prompt' = "user"
          /\ runPc' = "turn"
          /\ runLog' = Append(runLog, R("readPrompt", "user", << >>, NilErr, ""))
          /\ UNCHANGED runRet
       \/ /\ RunReturn(NilErr)
          /\ runLog' = Append(runLog, R("readPrompt", "", << >>, "EOF", ""))
          /\ UNCHANGED prompt
       \/ /\ RunReturn(ErrPrompt)
          /\ runLog' = Append(runLog, R("readPrompt", "", << >>, ErrPrompt, ""))
          /\ UNCHANGED prompt
    /\ UNCHANGED <<monVars, turnVars, proxyVars, procVars, cfg, logSession, ctxDone, sessionID, hangRetries, turnRes,
                   exitCode>>

\* main: os.Exit after run has returned.
MainExit ==
    /\ runPc = "returned"
    /\ exitCode' = ExitCode(runRet)
    /\ runPc' = "exited"
    /\ UNCHANGED <<monVars, turnVars, proxyVars, procVars, cfg, logSession, ctxDone, prompt, sessionID, hangRetries,
                   turnRes, runRet, runLog>>

\* SIGINT or SIGTERM while run is blocked in a read of the user's input:
\* signal.NotifyContext cancels ctx, and nothing else happens.
RunCancel ==
    /\ runPc \in {"first_prompt", "read_prompt"}
    /\ ~ctxDone
    /\ ctxDone' = TRUE
    /\ UNCHANGED <<monVars, turnVars, proxyVars, procVars, cfg, logSession, runPc, prompt, sessionID,
                   hangRetries, turnRes, runRet, exitCode, runLog>>

\* The steps run and main take by themselves, without reading any input.
RunOwnNext == RunTurn \/ RunHandle \/ RunBreak \/ MainExit

RunNext ==
    \/ RunFirstPrompt \/ RunTurn \/ RunHandle \/ RunBreak \/ RunReadPrompt \/ MainExit
    \/ RunCancel

SpecRun == InitRun /\ [][RunNext]_vars

(***************************************************************************)
(* internal/process: Start, called as its unit tests call it.  The prompt  *)
(* is a sequence of bytes (tokens).                                        *)
(***************************************************************************)
ProcConfigs ==
    [Prompt : {<< >>, <<"p1">>, <<"p1", "p2">>},
     SessionID : {"", "S1"},
     Force : BOOLEAN,
     Model : {"", "m"},
     Workspace : {"", "w"},
     ExtraFlags : {<< >>, <<"--x1">>, <<"--x1", "--force">>}]

\* What can fail in Start: the creation of one of the three pipes,
\* cmd.Start, the write of the prompt, the close of stdin.
StartFailures ==
    {"none", "stdin pipe", "stdout pipe", "stderr pipe", "start", "write", "close"}

ErrWritePrompt == "writing prompt to stdin"
ErrCloseStdin == "closing stdin"

StartRet(argv, ops, stdin, sess, err, failed) ==
    [argv |-> argv, ops |-> ops, stdin |-> stdin, sess |-> sess, err |-> err,
     failed |-> failed]

\* Variant: stdin is left open.
Start_NoClose(c, fail, n) ==
    IF fail \in {"stdin pipe", "stdout pipe", "stderr pipe"}
    THEN StartRet(<< >>, << >>, << >>, FALSE, fail, fail)
    ELSE IF fail = "start"
    THEN StartRet(<< >>, <<"cmd.Start">>, << >>, FALSE, ErrSpawn, fail)
    ELSE IF fail = "write"
    THEN StartRet(buildArgs(c), <<"cmd.Start", "WriteString", "Process.Kill">>,
                  SubSeq(c.Prompt, 1, n), FALSE, ErrWritePrompt, fail)
    ELSE IF fail = "close"
    THEN StartRet(buildArgs(c),
                  <<"cmd.Start", "WriteString", "stdin.Close", "Process.Kill">>,
                  c.Prompt, FALSE, ErrCloseStdin, fail)
    ELSE StartRet(buildArgs(c), <<"cmd.Start", "WriteString">>,
                  c.Prompt, TRUE, NilErr, fail)

\* Start: the child's argv, the calls made on the child and on its stdin,
\* the bytes that reached stdin (n of them when the write fails), whether a
\* Session is returned, and the error.
Start(c, fail, n) ==
    IF fail \in {"stdin pipe", "stdout pipe", "stderr pipe"}
    THEN StartRet(<< >>, << >>, << >>, FALSE, fail, fail)
    ELSE IF fail = "start"
    THEN StartRet(<< >>, <<"cmd.Start">>, << >>, FALSE, ErrSpawn, fail)
    ELSE IF fail = "write"
    THEN StartRet(buildArgs(c), <<"cmd.Start", "WriteString", "Process.Kill">>,
                  SubSeq(c.Prompt, 1, n), FALSE, ErrWritePrompt, fail)
    ELSE IF fail = "close"
    THEN StartRet(buildArgs(c),
                  <<"cmd.Start", "WriteString", "stdin.Close", "Process.Kill">>,
                  c.Prompt, FALSE, ErrCloseStdin, fail)
    ELSE StartRet(buildArgs(c), <<"cmd.Start", "WriteString", "stdin.Close">>,
                  c.Prompt, TRUE, NilErr, fail)

InitProc ==
    /\ InitWith(TurnThresholds)
    /\ ProxyIdle /\ RunIdle
    /\ pcfg \in ProcConfigs
    /\ procPc = "start" /\ proc = NoProc

\* sess, err := Start(ctx, cfg)
ProcStart ==
    /\ procPc = "start"
    /\ \E fail \in StartFailures, n \in 0..Len(pcfg.Prompt) :
         /\ fail # "write" => n = Len(pcfg.Prompt)
         /\ fail = "write" => n < Len(pcfg.Prompt)
         /\ proc' = Start(pcfg, fail, n)
    /\ procPc' = "started"
    /\ UNCHANGED <<monVars, turnVars, proxyVars, runVars, pcfg>>

ProcNext == ProcStart

SpecProc == InitProc /\ [][ProcNext]_vars

(***************************************************************************)
(* Properties of the monitor.                                              *)
(***************************************************************************)
Checked == ret.op = "CheckTimeout"
Processed == ret.op = "ProcessEvent"
OpenIDs == DOMAIN state.OpenCalls
Elapsed(c) == ret.t - state.OpenCalls[c].StartedAt

\* C1 (as stated): once a result has been processed, every verdict the
\* monitor returns afterwards, from ProcessEvent and from CheckTimeout, is OK.
C1_AllVerdictsOK ==
    (ret.op # "none" /\ ret.pre.SessionDone) => ret.v = VerdictOK

\* C1 (amended): once a result has been processed, every verdict CheckTimeout
\* returns is OK whatever the elapsed time and the open calls; ProcessEvent
\* never returns Hang, and returns Waiting exactly while calls remain open.
C1_DoneChecksOK ==
    /\ (Checked /\ ret.pre.SessionDone) => ret.v = VerdictOK
    /\ (Processed /\ ret.pre.SessionDone) =>
          ret.v = (IF OpenIDs = {} THEN VerdictOK ELSE VerdictWaiting)

\* C1 witness: a check after the result, with an open call past its deadline.
C1_Witness ==
    /\ Checked /\ ret.pre.SessionDone /\ ret.v = VerdictOK
    /\ \E c \in OpenIDs : Elapsed(c) > state.OpenCalls[c].TimeoutMS + toolGrace
                          /\ Elapsed(c) > idleTimeout

\* C3 (as stated): CheckTimeout(t) never returns Hang while some open call
\* has t - start <= timeout + grace.
C3_NoHangWithinTimeoutPlusGrace ==
    (Checked /\ \E c \in OpenIDs : Elapsed(c) <= state.OpenCalls[c].TimeoutMS + toolGrace)
        => ret.v # VerdictHang

\* C3 (amended): CheckTimeout(t) never returns Hang while some open call
\* with a declared (non-zero) timeout has t - start <= timeout + grace, or
\* some open call without one (timeout 0) has t - start <= idle_timeout.
C3_NoHangWithinOwnDeadline ==
    (Checked /\ \E c \in OpenIDs :
        \/ state.OpenCalls[c].TimeoutMS # 0
             /\ Elapsed(c) <= state.OpenCalls[c].TimeoutMS + toolGrace
        \/ state.OpenCalls[c].TimeoutMS = 0 /\ Elapsed(c) <= idleTimeout)
        => ret.v # VerdictHang

\* C3 witness: two open calls, one past its deadline and one within it, and
\* the check answers Waiting.
C3_Witness ==
    /\ Checked /\ ~state.SessionDone /\ ret.v = VerdictWaiting
    /\ \E a, b \in OpenIDs :
         /\ a # b
         /\ state.OpenCalls[a].TimeoutMS = 0 /\ Elapsed(a) > idleTimeout
         /\ state.OpenCalls[b].TimeoutMS # 0
         /\ Elapsed(b) <= state.OpenCalls[b].TimeoutMS + toolGrace

\* C4: with an open call and no result, CheckTimeout returns Hang iff every
\* open call has elapsed > deadline (timeout + grace, or idle_timeout when
\* the timeout is 0), and Waiting otherwise.
C4_HangIffAllExpired ==
    (Checked /\ ~state.SessionDone /\ OpenIDs # {}) =>
        LET expired(c) ==
                IF state.OpenCalls[c].TimeoutMS = 0
                THEN Elapsed(c) > idleTimeout
                ELSE Elapsed(c) > state.OpenCalls[c].TimeoutMS + toolGrace
        IN IF \A c \in OpenIDs : expired(c)
           THEN ret.v = VerdictHang
           ELSE ret.v = VerdictWaiting

\* C4 witness: Hang with two open calls, one of them without a declared
\* timeout, both past their deadlines.
C4_Witness ==
    /\ Checked /\ ~state.SessionDone /\ ret.v = VerdictHang
    /\ Cardinality(OpenIDs) = 2
    /\ \E c \in OpenIDs : state.OpenCalls[c].TimeoutMS = 0
    /\ \E c \in OpenIDs : state.OpenCalls[c].TimeoutMS # 0

\* C5: with no open call and no result, CheckTimeout(t) is OK for every
\* t <= t0 + idle_timeout and Hang for every t > t0 + idle_timeout, t0 being
\* the receive time of the last event (the construction time if none).
C5_IdleThreshold ==
    (Checked /\ ~state.SessionDone /\ OpenIDs = {}) =>
        IF ret.t <= state.LastEventAt + idleTimeout
        THEN ret.v = VerdictOK
        ELSE ret.v = VerdictHang

\* C5 witness: a check exactly at t0 + idle_timeout after an event, OK.
C5_Witness ==
    /\ Checked /\ ~state.SessionDone /\ OpenIDs = {}
    /\ state.LastEvType # "" /\ state.LastEventAt > 0
    /\ ret.t = state.LastEventAt + idleTimeout /\ ret.v = VerdictOK

IdleSilence == ret.t - state.LastEventAt
PastOwnDeadline(c) ==
    IF state.OpenCalls[c].TimeoutMS = 0
    THEN Elapsed(c) > idleTimeout
    ELSE Elapsed(c) > state.OpenCalls[c].TimeoutMS + toolGrace

C33_HangReasonComplete ==
    (ret.op = "CheckTimeout" /\ ret.v = VerdictHang) =>
        LET calls == ret.pre.OpenCalls
        IN /\ ret.reason.OpenCallCount = Cardinality(DOMAIN calls)
           /\ Cardinality(ret.reason.OpenCalls) = Cardinality(DOMAIN calls)
           /\ \A c \in DOMAIN calls :
                [CallID |-> c, Command |-> calls[c].Command,
                 ElapsedMS |-> ret.t - calls[c].StartedAt,
                 TimeoutMS |-> calls[c].TimeoutMS] \in ret.reason.OpenCalls

\* C33 witness: a Hang verdict with two open calls, started at different
\* times, one with a declared timeout and one without.
C33_Witness ==
    /\ ret.op = "CheckTimeout" /\ ret.v = VerdictHang
    /\ Cardinality(DOMAIN ret.pre.OpenCalls) = 2
    /\ \E c, d \in DOMAIN ret.pre.OpenCalls :
         /\ ret.pre.OpenCalls[c].StartedAt # ret.pre.OpenCalls[d].StartedAt
         /\ ret.pre.OpenCalls[c].TimeoutMS # 0
         /\ ret.pre.OpenCalls[d].TimeoutMS = 0

\* C37: in every monitor state, ProcessEvent of a tool_call/completed whose
\* call_id is not in the open-call table changes nothing but the time and
\* the type of the last event, and returns the verdict of the unchanged
\* table: Waiting if calls are open, OK if none is.
C37_UnmatchedCompletion ==
    \A line \in CompletedLines :
        line.CallID \notin DOMAIN state.OpenCalls =>
            LET st2 == ProcessEventState(state, AnnotatedEvent(line, now))
            IN /\ st2 = [state EXCEPT !.LastEventAt = now,
                                      !.LastEvType = "tool_call/completed"]
               /\ ProcessEventVerdict(st2) =
                    IF DOMAIN state.OpenCalls # {} THEN VerdictWaiting ELSE VerdictOK

\* C37 witness: a completion was processed while another call was open and
\* has left the table as it was; only the time of the last event moved.
C37_Witness ==
    /\ ret.op = "ProcessEvent" /\ ret.v = VerdictWaiting
    /\ state.LastEvType = "tool_call/completed"
    /\ state.OpenCalls = ret.pre.OpenCalls
    /\ state.LastEventAt > ret.pre.LastEventAt
    /\ ret.pre.LastEvType # "tool_call/completed"

\* Events of types the monitor's switch statement does not know, without
\* and with a subtype.
UnknownLines ==
    FlowLines \cup { Line("json", "thinking", "completed", "", "", "", 0) }

\* C38: in every monitor state, ProcessEvent of an event of unknown type
\* sets the time of the last event to the event's recv_time and the type of
\* the last event to type or type/subtype and changes nothing else; when no
\* call is open and no result was seen, the idle timeout then runs from
\* that recv_time.
C38_UnknownEvent ==
    \A line \in UnknownLines :
        LET st2 == ProcessEventState(state, AnnotatedEvent(line, now))
        IN /\ st2 = [state EXCEPT
                       !.LastEventAt = now,
                       !.LastEvType = IF line.Subtype = "" THEN line.Type
                                      ELSE line.Type \o "/" \o line.Subtype]
           /\ (DOMAIN state.OpenCalls = {} /\ ~state.SessionDone) =>
                /\ CheckTimeout(st2, now + idleTimeout, idleTimeout, toolGrace).v = VerdictOK
                /\ CheckTimeout(st2, now + idleTimeout + 1, idleTimeout, toolGrace).v
                     = VerdictHang

\* C38 witness: an event of unknown type arrived when the silence had
\* passed the idle timeout, and the check after it returns OK.
C38_Witness ==
    /\ ret.op = "CheckTimeout" /\ ret.v = VerdictOK
    /\ state.LastEvType = "user" /\ ~state.SessionDone
    /\ DOMAIN state.OpenCalls = {}
    /\ state.LastEventAt > idleTimeout
    /\ now > state.LastEventAt

\* C39: the open-call table holds one entry per call_id, and its call_ids
\* are exactly those started and not completed since; a started for a
\* call_id that is already open replaces that entry alone by one that
\* starts at the new recv_time, and the call's deadline runs from there:
\* the check at recv_time + deadline still waits, and if no other call is
\* open the check a unit later is a hang.
C39_OneEntryPerCallID ==
    /\ DOMAIN state.OpenCalls = startedOpen
    /\ Cardinality(DOMAIN state.OpenCalls) = Cardinality(startedOpen)
    /\ \A c \in DOMAIN state.OpenCalls : state.OpenCalls[c].CallID = c
    /\ \A line \in ShellStartedLines \cup OtherStartedLines :
         line.CallID \in DOMAIN state.OpenCalls =>
            LET ev == AnnotatedEvent(line, now)
                st2 == ProcessEventState(state, ev)
                d == ToolDeadline(OpenToolCall(ev), idleTimeout, toolGrace)
            IN /\ st2.OpenCalls =
                    [state.OpenCalls EXCEPT ![line.CallID] = OpenToolCall(ev)]
               /\ st2.OpenCalls[line.CallID].StartedAt = now
               /\ ~state.SessionDone =>
                    /\ CheckTimeout(st2, now + d, idleTimeout, toolGrace).v = VerdictWaiting
                    /\ DOMAIN state.OpenCalls = {line.CallID} =>
                         CheckTimeout(st2, now + d + 1, idleTimeout, toolGrace).v
                           = VerdictHang

\* C39 witness: a started for an open call_id was processed while a second
\* call was open; the table still has its two entries and the restarted one
\* starts later than before.
C39_Witness ==
    /\ ret.op = "ProcessEvent"
    /\ Cardinality(DOMAIN state.OpenCalls) = 2
    /\ DOMAIN state.OpenCalls = DOMAIN ret.pre.OpenCalls
    /\ \E c \in DOMAIN state.OpenCalls :
         /\ state.OpenCalls[c].StartedAt > ret.pre.OpenCalls[c].StartedAt
         /\ state.OpenCalls[c].StartedAt = ret.t

(***************************************************************************)
(* Properties of the turn.                                                 *)
(***************************************************************************)
Returned == mainPc = "returned" /\ result.Err # ErrSpawn
InLoop == mainPc \in {"select", "parked"}
OnHangPath == killRet = "hang_join"
SetMax(S) == CHOOSE x \in S : \A y \in S : y <= x

\* C2: ProcessEvent returns OK or Waiting for every event in every monitor
\* state (each one is held at a select of the main loop), never Hang; and
\* Kill is called with a hang Reason only by the tick branch, after a
\* CheckTimeout that returned Hang with that Reason.
C2_HangOnlyFromTick ==
    /\ mainPc = "select" =>
         \A line \in EventLines :
             ProcessEventVerdict(ProcessEventState(state, AnnotatedEvent(line, now)))
                 \in {VerdictOK, VerdictWaiting}
    /\ Processed => ret.v \in {VerdictOK, VerdictWaiting}
    /\ \A i \in 1..Len(kills) :
         kills[i].kind = "reason" =>
             /\ Checked /\ ret.v = VerdictHang
             /\ kills[i].text = ReasonString(ret.reason)
    /\ result.Err = ErrHangDetected => (Checked /\ ret.v = VerdictHang)

\* C2 witness: an event is processed while an open call is past its
\* deadline; the verdict is Waiting and the agent has not been killed.
C2_Witness ==
    /\ Processed /\ ret.v = VerdictWaiting /\ kills = << >> /\ mainPc = "select"
    /\ \E c \in OpenIDs :
         now - state.OpenCalls[c].StartedAt
             > ToolDeadline(state.OpenCalls[c], idleTimeout, toolGrace)

\* The reference point of a silence: the last event when no call is open,
\* the start of the most recently started open call otherwise.
RefPoint ==
    IF OpenIDs = {} THEN state.LastEventAt
    ELSE SetMax({ state.OpenCalls[c].StartedAt : c \in OpenIDs })

\* max(idle_timeout, tool_timeout + tool_grace) + tick_interval, tool_timeout
\* being the largest timeout declared by an open call.
LatencyBound ==
    IF OpenIDs = {} THEN idleTimeout + TickInterval
    ELSE Max(idleTimeout,
             SetMax({ state.OpenCalls[c].TimeoutMS : c \in OpenIDs }) + toolGrace)
         + TickInterval

HangTail == <<J("log hang", 0), J("Kill", 0), J("wg.Wait", 0), J("Flush", 0)>>
IsPrefix(a, b) == Len(a) <= Len(b) /\ SubSeq(b, 1, Len(a)) = a
\* The journal from its first entry with operation op on.
From(op) ==
    LET I == { i \in 1..Len(journal) : journal[i].op = op }
    IN IF I = {} THEN << >>
       ELSE SubSeq(journal, CHOOSE i \in I : \A j \in I : i <= j, Len(journal))

\* C7: after a tick whose CheckTimeout returned Hang the main loop logs the
\* Reason, calls Kill exactly once, with the Reason's string form, waits for
\* both workers, flushes the formatter and returns HangDetected with that
\* same Reason, in this order and with nothing in between.
C7_HangSequence ==
    /\ (Checked /\ ret.v = VerdictHang) => OnHangPath
    /\ OnHangPath =>
         /\ Checked /\ ret.v = VerdictHang
         /\ mainPc \in {"kill_poll", "hang_join", "returned"}
         /\ kills = << [kind |-> "reason", text |-> ReasonString(ret.reason)] >>
         /\ From("log hang") # << >>
         /\ IsPrefix(From("log hang"), HangTail)
         /\ mainPc \in {"kill_poll", "hang_join"} => Len(From("log hang")) = 2
         /\ mainPc = "returned" =>
              /\ From("log hang") = HangTail
              /\ readerPc = "done" /\ drainPc = "done"
              /\ result = TurnResult(state.SessionID, ErrHangDetected, ret.reason)
    /\ result.Err = ErrHangDetected => OnHangPath

\* C7 witness: a turn returned HangDetected for a hung tool call.
C7_Witness ==
    /\ mainPc = "returned" /\ result.Err = ErrHangDetected
    /\ result.Reason.OpenCallCount > 0

\* C8: whenever runTurn has returned after a successful spawn, the reader
\* worker and the stderr drainer have both terminated.
C8_WorkersJoined ==
    Returned => (readerPc = "done" /\ drainPc = "done")

\* C8 witness: a turn returned after a cancellation.
C8_Witness ==
    Returned /\ result.Err = ErrCanceled /\ readerPc = "done" /\ drainPc = "done"

\* C9: when ctx is cancelled while the turn is running (the main loop is in
\* its select loop and no event, error or tick is waiting for it), Kill is
\* requested, both workers are joined and the turn returns the context
\* error, not any other terminal condition.
C9_CancelReturnsCancelled ==
    (Returned /\ cancelAt = "loop") =>
        /\ result.Err = ErrCanceled
        /\ \E i \in 1..Len(kills) : kills[i].kind = "context cancelled"
        /\ readerPc = "done" /\ drainPc = "done"

\* C10: when the reader has hit a non-EOF read error while not cancelled,
\* Kill is requested and the turn returns ReaderFailure, never
\* NormalCompletion or AbnormalExit.
C10_ReadErrorReturnsReaderFailure ==
    (Returned /\ readErrSent /\ ~cancelled) =>
        /\ result.Err = ErrReader
        /\ \E i \in 1..Len(kills) : kills[i].kind = "reader error"

\* The line numbers of the events the main loop handed to a consumer, in
\* journal order.
IsOp(op, e) == e.op = op
IsHandOver(e) == e.op \in {"raw_event", "WriteEvent", "ProcessEvent"}
Handled(j, op) ==
    LET sub == SelectSeq(j, LAMBDA e : IsOp(op, e))
    IN [i \in 1..Len(sub) |-> sub[i].n]
StreamEnded == \E i \in 1..Len(journal) : journal[i].op = "Wait"

\* C11: a turn that ended on the close of the event channel returns
\* NormalCompletion if a result was processed and AbnormalExit otherwise,
\* whatever the exit status of the child.
C11_StreamEndOutcome ==
    (Returned /\ StreamEnded) =>
        result.Err = IF state.SessionDone THEN NilErr ELSE ErrAbnormalExit

\* C12: every event the main loop hands to the formatter or to the monitor
\* has its raw_event record written before, and every raw_event record is
\* followed by the formatter and the monitor, in this order.
C12_RawEventFirst ==
    /\ \A i \in 1..Len(journal) :
         /\ journal[i].op = "WriteEvent" =>
              i > 1 /\ journal[i - 1] = J("raw_event", journal[i].n)
         /\ journal[i].op = "ProcessEvent" =>
              i > 2 /\ journal[i - 2] = J("raw_event", journal[i].n)
    /\ \A i \in 1..Len(journal) :
         journal[i].op = "raw_event" =>
             /\ i + 2 <= Len(journal)
             /\ journal[i + 1] = J("WriteEvent", journal[i].n)
             /\ journal[i + 2] = J("ProcessEvent", journal[i].n)

\* C12 witness: two events have gone through the main loop.
C12_Witness ==
    Len(Handled(journal, "ProcessEvent")) = 2 /\ mainPc = "select"

\* C13: when a turn returns, the log holds one raw_event record for each
\* event the reader put on the event channel.
C13_EveryEmittedEventLogged ==
    Returned => Handled(journal, "raw_event") = emitted

RECURSIVE ExpectedAsStated(_)
ExpectedAsStated(ls) ==
    IF ls = << >> THEN << >>
    ELSE LET l == Head(ls)
             bytes == l.content \o (IF l.term = "crlf" THEN <<"\r">> ELSE << >>)
         IN (IF l.content # << >> /\ l.content[1] \in JSONTexts
             THEN bytes \o <<"\n">> ELSE << >>)
            \o ExpectedAsStated(Tail(ls))

\* The same for the lines that are event objects, their bytes taken without
\* the line terminator ("\n" or "\r\n").
RECURSIVE ExpectedEvents(_)
ExpectedEvents(ls) ==
    IF ls = << >> THEN << >>
    ELSE (IF Head(ls).content = <<"obj">> THEN <<"obj", "\n">> ELSE << >>)
         \o ExpectedEvents(Tail(ls))

LastDone == runLog[Len(runLog)]
Ops(op) == { i \in 1..Len(runLog) : runLog[i].op = op }
RecoveryTurns ==
    Cardinality({ i \in Ops("runTurn") : runLog[i].prompt = "recovery" })
\* args holds "--resume" once, followed by id.
HasResume(args, id) ==
    /\ Cardinality({ j \in 1..Len(args) : args[j] = "--resume" }) = 1
    /\ \E j \in 1..(Len(args) - 1) : args[j] = "--resume" /\ args[j + 1] = id

\* The session ended in normal completion: the single turn of print mode
\* completed normally, or the input of interactive mode came to its end.
EndedNormally ==
    \/ LastDone.op = "result" /\ LastDone.err = NilErr
    \/ LastDone.op = "readPrompt" /\ LastDone.err = "EOF"
\* The session ended because of a hang: the last thing run did was to get
\* HangDetected from a turn (and to write the hang indicator).
EndedByHang ==
    /\ turnRes.Err = ErrHangDetected
    /\ LastDone.op \in {"result", "WriteHangIndicator"}

\* C16: the exit status is 0 exactly when the session ended in normal
\* completion, 2 exactly when it ended because of a hang, 1 for every other
\* error.
C16_ExitStatus ==
    runPc = "exited" =>
        /\ exitCode \in {0, 1, 2}
        /\ exitCode = 0 <=> EndedNormally
        /\ exitCode = 2 <=> EndedByHang
        /\ exitCode = 1 <=> (~EndedNormally /\ ~EndedByHang)

\* C16 witness: an interactive session with a recovery prompt has exited
\* with status 2.
C16_Witness ==
    runPc = "exited" /\ exitCode = 2 /\ ~cfg.PrintMode /\ cfg.PromptAfterHang # ""

\* C17: in print mode at most one turn is run, no hang indicator is written,
\* no recovery prompt is sent, no further prompt is read, and run returns
\* the error of its turn.
C17_PrintSingleTurn ==
    cfg.PrintMode =>
        /\ Turns <= 1
        /\ Ops("WriteHangIndicator") = {}
        /\ Ops("readPrompt") = {}
        /\ RecoveryTurns = 0
        /\ (Turns = 1 /\ runPc \in {"returned", "exited"}) => runRet = turnRes.Err

\* C17 witness: a print-mode session with a recovery prompt configured has
\* exited after a hang.
C17_Witness ==
    /\ cfg.PrintMode /\ cfg.PromptAfterHang # "" /\ runPc = "exited"
    /\ turnRes.Err = ErrHangDetected /\ Turns = 1

\* C18: in interactive mode a turn error other than HangDetected is the last
\* thing the loop sees (run returns it at once); HangDetected is followed
\* by the hang indicator and then by a recovery turn, by the reading of the
\* next prompt, or by the return.
C18_OnlyHangContinues ==
    ~cfg.PrintMode =>
        \A i \in Ops("result") :
            runLog[i].err # NilErr =>
                IF runLog[i].err = ErrHangDetected
                THEN /\ i = Len(runLog) => runPc = "handle"
                     /\ i < Len(runLog) => runLog[i + 1].op = "WriteHangIndicator"
                     /\ i + 2 <= Len(runLog) =>
                          \/ /\ runLog[i + 2].op = "runTurn"
                             /\ runLog[i + 2].prompt = "recovery"
                             /\ cfg.PromptAfterHang # ""
                          \/ /\ runLog[i + 2].op = "readPrompt"
                             /\ cfg.PromptAfterHang = ""
                ELSE /\ i = Len(runLog)
                     /\ runPc \in {"handle", "returned", "exited"}
                     /\ runPc # "handle" => runRet = runLog[i].err

\* C18 witness: an interactive session went on after a hang with a prompt
\* of the user and exited on an abnormal exit of the next turn.
C18_Witness ==
    /\ ~cfg.PrintMode /\ runPc = "exited" /\ turnRes.Err = ErrAbnormalExit
    /\ \E i \in Ops("result") :
         /\ runLog[i].err = ErrHangDetected
         /\ i + 3 <= Len(runLog)
         /\ runLog[i + 2].op = "readPrompt" /\ runLog[i + 3].op = "runTurn"

\* C19: with a recovery prompt in interactive mode, no more recovery turns
\* are spawned than the configured maximum retry count.
C19_RetriesBoundedByConfig ==
    (~cfg.PrintMode /\ cfg.PromptAfterHang # "") => RecoveryTurns <= cfg.MaxHangRetries

\* The session id captured from a turn: that of the first result carrying
\* one.
FirstWithID ==
    LET I == { i \in Ops("result") : runLog[i].sid # "" }
    IN CHOOSE i \in I : \A k \in I : i <= k

\* C20: once a turn's result carried a session id (no --resume given), every
\* later turn is spawned with --resume and that id, and sessionID keeps it;
\* with --resume given every turn is spawned with the given id.
C20_ResumeCaptured ==
    /\ cfg.Resume # "" =>
         /\ \A k \in Ops("runTurn") : HasResume(runLog[k].args, cfg.Resume)
         /\ runPc # "first_prompt" /\ Ops("firstPrompt") # {} /\ runLog[1].err = NilErr
              => sessionID = cfg.Resume
    /\ (cfg.Resume = "" /\ \E i \in Ops("result") : runLog[i].sid # "") =>
         /\ sessionID = runLog[FirstWithID].sid
         /\ \A k \in Ops("runTurn") :
              k > FirstWithID => HasResume(runLog[k].args, runLog[FirstWithID].sid)

\* C20 witness: the id of a hung first turn was kept through a turn whose
\* result carried another id, and a third turn was spawned.
C20_Witness ==
    /\ cfg.Resume = "" /\ Turns = 3
    /\ \E i, k \in Ops("result") :
         /\ i < k /\ runLog[i].err = ErrHangDetected
         /\ runLog[i].sid = "S1" /\ runLog[k].sid = "S2"
         /\ \E m \in Ops("runTurn") : m > k

\* C21: the hang indicator is written in interactive mode only, each time
\* right after a turn returned HangDetected (whose Kill is C7's matter) and
\* once for that turn; it is never written in print mode nor after a turn
\* that ended otherwise.
C21_HangIndicator ==
    /\ \A i \in Ops("WriteHangIndicator") :
         /\ ~cfg.PrintMode
         /\ i > 1 /\ runLog[i - 1].op = "result"
         /\ runLog[i - 1].err = ErrHangDetected
    /\ \A i \in Ops("result") :
         (~cfg.PrintMode /\ runLog[i].err = ErrHangDetected
             /\ (i < Len(runLog) \/ runPc # "handle")) =>
             /\ i < Len(runLog)
             /\ runLog[i + 1].op = "WriteHangIndicator"

\* C21 witness: an interactive session wrote two indicators for two hung
\* turns and none for the reader failure that ended it.
C21_Witness ==
    /\ ~cfg.PrintMode /\ runPc = "exited" /\ turnRes.Err = ErrReader
    /\ Cardinality(Ops("WriteHangIndicator")) = 2
    /\ Cardinality({ i \in Ops("result") : runLog[i].err = ErrHangDetected }) = 2

\* C22: once a turn that observed a system/init (its result carries a
\* session id) has been handled, the log file is named after the first
\* session id observed.
C22_LogFileRenamed ==
    (\E i \in Ops("result") : runLog[i].sid # "") =>
        logSession.filePath = runLog[FirstWithID].sid

\* C34: the retry counter counts consecutive hangs: when a turn has
\* completed normally and the loop goes on to the next user prompt, the
\* counter is back at 0, so that only hangs in a row can use up the budget.
C34_RetriesConsecutive ==
    (runPc = "read_prompt" /\ turnRes.Err = NilErr) => hangRetries = 0

\* C35: in interactive mode without a recovery prompt, when the last turn
\* ended in HangDetected and the next read of the user's input found its
\* end, run returns nil and main exits with status 0.
C35_HangThenEOFExitsZero ==
    (/\ runPc \in {"returned", "exited"}
     /\ ~cfg.PrintMode /\ cfg.PromptAfterHang = ""
     /\ turnRes.Err = ErrHangDetected
     /\ runLog # << >>
     /\ runLog[Len(runLog)].op = "readPrompt"
     /\ runLog[Len(runLog)].err = "EOF") =>
        /\ runRet = NilErr
        /\ runPc = "exited" => exitCode = 0

\* C35 witness: the wrapper has exited after a hung turn followed by the
\* end of the input.
C35_Witness ==
    /\ runPc = "exited" /\ exitCode = 0
    /\ ~cfg.PrintMode /\ cfg.PromptAfterHang = ""
    /\ turnRes.Err = ErrHangDetected
    /\ runLog[Len(runLog)].err = "EOF"
    /\ runLog[Len(runLog) - 1].op = "WriteHangIndicator"

\* C36: when ctx is cancelled while the session loop waits for the next
\* user prompt between two turns, the wrapper has a step of its own to
\* take towards its exit: it does not need the read of its stdin to return.
C36_CancelAtPromptTerminates ==
    (ctxDone /\ runPc = "read_prompt") => ENABLED RunOwnNext

(***************************************************************************)
(* The process manager.                                                    *)
(***************************************************************************)

\* C24: when Start returns a Session, the whole prompt has been written to
\* the child's stdin and stdin has been closed after it, nothing else having
\* been done to the child; when the write or the close fails, the last
\* thing done is Process.Kill and Start returns an error and no Session.
C24_PromptThenClose ==
    procPc = "started" =>
        /\ proc.sess =>
             /\ proc.err = NilErr
             /\ proc.stdin = pcfg.Prompt
             /\ proc.ops = <<"cmd.Start", "WriteString", "stdin.Close">>
        /\ proc.failed \in {"write", "close"} =>
             /\ ~proc.sess /\ proc.err \notin {NilErr, "none"}
             /\ proc.ops[Len(proc.ops)] = "Process.Kill"
             /\ proc.ops[1] = "cmd.Start"
        /\ proc.sess <=> proc.failed = "none"

\* C24 witness: Start returned a Session for a prompt of two bytes.
C24_Witness ==
    procPc = "started" /\ proc.sess /\ Len(pcfg.Prompt) = 2

\* C25: the argv of the child is --print --output-format stream-json,
\* then --resume and the id iff the id is not empty, then --force iff Force,
\* then --model and its value iff Model is not empty, then --workspace and
\* its path iff Workspace is not empty, then ExtraFlags, and nothing else.
C25_ArgvExact ==
    (procPc = "started" /\ proc.failed \in {"none", "write", "close"}) =>
        LET args == proc.argv
            r == IF pcfg.SessionID # "" THEN 2 ELSE 0
            f == IF pcfg.Force THEN 1 ELSE 0
            m == IF pcfg.Model # "" THEN 2 ELSE 0
            w == IF pcfg.Workspace # "" THEN 2 ELSE 0
        IN /\ Len(args) = 3 + r + f + m + w + Len(pcfg.ExtraFlags)
           /\ args[1] = "--print" /\ args[2] = "--output-format"
           /\ args[3] = "stream-json"
           /\ r = 2 => args[4] = "--resume" /\ args[5] = pcfg.SessionID
           /\ f = 1 => args[4 + r] = "--force"
           /\ m = 2 => args[4 + r + f] = "--model" /\ args[5 + r + f] = pcfg.Model
           /\ w = 2 => /\ args[4 + r + f + m] = "--workspace"
                       /\ args[5 + r + f + m] = pcfg.Workspace
           /\ \A i \in 1..Len(pcfg.ExtraFlags) :
                args[3 + r + f + m + w + i] = pcfg.ExtraFlags[i]

\* C25 witness: a child spawned with every option set and two pass-through
\* arguments, one of them spelled like an option of the wrapper.
C25_Witness ==
    /\ procPc = "started" /\ proc.sess
    /\ pcfg.SessionID # "" /\ pcfg.Force /\ pcfg.Model # "" /\ pcfg.Workspace # ""
    /\ pcfg.ExtraFlags = <<"--x1", "--force">>
    /\ Len(proc.argv) = 12

(***************************************************************************)
(* The turn's termination (SpecLive) and its races.                        *)
(***************************************************************************)

\* The clock of the model has stopped while the main loop waits for a time
\* that lies beyond it: the end of Kill's grace period, or a tick at which
\* CheckTimeout would return Hang.
ClockStopped ==
    /\ now = MaxTime
    /\ \/ mainPc = "kill_poll" /\ killDeadline > now
       \/ /\ InLoop
          /\ \E t \in (now + 1)..(now + idleTimeout + toolGrace + 2) :
               CheckTimeout(state, t, idleTimeout, toolGrace).v = VerdictHang

\* C26: once a tick has yielded Hang, runTurn returns, unless ctx is
\* cancelled.
C26_HangTurnReturns ==
    OnHangPath ~> (mainPc = "returned" \/ cancelled \/ ClockStopped)

RECURSIVE ProcessAll(_, _)
\* The monitor state after ProcessEvent of every event of ch, in order.
ProcessAll(st, ch) ==
    IF ch = << >> THEN st
    ELSE ProcessAll(ProcessEventState(st, Head(ch)), Tail(ch))

\* C27: when a tick makes the main loop declare Hang, CheckTimeout on the
\* monitor state brought up to date with the events waiting in eventCh
\* returns Hang as well.
C27_NoHangOnStaleState ==
    [][(InLoop /\ ret'.op = "CheckTimeout" /\ ret'.v = VerdictHang
            /\ mainPc' \notin {"select", "parked"}) =>
          CheckTimeout(ProcessAll(state, eventCh), now, idleTimeout, toolGrace).v
              = VerdictHang]_vars

\* C28: a started turn returns with the child dead: a child that stays
\* silent and keeps its stdout open is killed, whatever the monitor state.
C28_SilenceEndsTurn ==
    (agentSt = "running") ~>
        ((mainPc = "returned" /\ agentSt = "exited") \/ ClockStopped)

\* C29: when the turn of a spawned child returns, Wait has been called on
\* the child, once.
C29_Reaped ==
    Returned =>
        /\ reaped
        /\ Cardinality({ i \in 1..Len(journal) : journal[i].op = "Wait" }) = 1

\* C23: Kill does not block past the end of its grace period, whether the
\* child exits on SIGTERM, ignores it or was dead before; and SIGKILL is
\* sent only to a child that is still running when the poll ends.
C23_KillBounded ==
    /\ mainPc = "kill_poll" => now <= killDeadline
    /\ sigkill \in {"none", "running"}


C32_ReadErrorForwarded ==
    [][/\ (readerPc = "after" /\ readerPc' # "after" /\ ~cancelled) =>
             (readerErrCh' /\ readErrSent' /\ ~chClosed')
       /\ ((readerErrCh' /\ ~readerErrCh) \/ (readErrSent' /\ ~readErrSent)) =>
             (readerPc = "after" /\ ~cancelled /\ ~chClosed')]_vars

\* C32 witness: the error was sent and the reader has then closed its
\* output channel; the main loop has not taken the error yet.
C32_Witness ==
    readErrSent /\ readerErrCh /\ readerPc = "done" /\ chClosed /\ ~cancelled

\* Once the scanner has met an over-long line the reader is past its loop
\* and every line it has emitted precedes that line.
TooLongStopsReader ==
    tooLongAt # 0 =>
        /\ readerPc \in {"after", "closing", "done"}
        /\ \A i \in 1..Len(emitted) : emitted[i] < tooLongAt

\* C40: a line over the reader's maximum is not skipped: the reader stops
\* at it and emits no later line, and a turn that returns after it has
\* requested Kill for the reader error and returns ReaderFailure.
C40_TooLongLineEndsTurn ==
    /\ TooLongStopsReader
    /\ (Returned /\ tooLongAt # 0) =>
          /\ result.Err = ErrReader
          /\ \E i \in 1..Len(kills) : kills[i].kind = "reader error"

=============================================================================
